---- MODULE Spec2Model ----
(***************************************************************************)
(* Model of the VorteX DEX front end: the ConvexClient (convex-client.js)  *)
(* and the VorteXInterface controller (vortex-interface.js).               *)
(*                                                                         *)
(* JavaScript runs one handler at a time; a handler gives up control only  *)
(* at an await on the network.  Every action below is therefore one run of *)
(* a handler from its start (or from the await it resumes at) to its next  *)
(* await on fetch (or to its end).  `await fetch(...)` followed by         *)
(* `await response.json()` is one suspension of the model: the code        *)
(* between the two awaits reads only the response, so a handler that runs  *)
(* between them could as well have run before the response arrived.        *)
(*                                                                         *)
(* Numbers are exact decimals counted in units of 10^-6 (One = 1.0).       *)
(* Texts are sequences of one-character strings.                           *)
(***************************************************************************)
EXTENDS Integers, Sequences, FiniteSets, TLC

\* ------------------------------------------------------------------ bounds
MaxClients == 2     \* ConvexClient objects created in one behaviour
MaxSwaps == 2       \* executeSwap invocations that can be suspended at once
MaxRefresh == 2     \* updateBalances invocations that can be suspended at once
MaxCalls == 1       \* direct client calls that can be suspended at once (SpecClient)
MaxSeq == 1         \* cap of the sequence counter
MaxSeqDirect == 2   \* cap of the sequence counter of a client used directly

\* ------------------------------------------------------------------ values
Null == "null"
Undefined == "undefined"
ExpectedInit == 7               \* convex-client.js:44
DemoAddress == "#12"            \* convex-client.js:100
DemoKeyPair == "demo"           \* convex-client.js:101
AccountKey == "d82e78"          \* convex-client.js:82 (abbreviated)
PeerAddress == "#A"             \* the address a create-account answer carries
GivenAddress == "#9"            \* an address handed to connect by its caller
GivenKeyPair == "seed"          \* a credential handed to connect by its caller

\* A JavaScript number: NaN, or the decimal v (in units of 10^-6).
Num(v) == [nan |-> FALSE, v |-> v]
NaN == [nan |-> TRUE, v |-> 0]
\* !x and x <= 0 of a number x
NumFalsy(x) == x.nan \/ x.v = 0
NumLeqZero(x) == ~x.nan /\ x.v <= 0
\* !a of an address or credential a
NoRef(a) == a \in {Null, Undefined}

\* The answers of the peer to one request.  "error" is a transport failure
\* (fetch rejects), "timeout" the AbortSignal firing, "status" a non-2xx
\* answer, "badjson" a body that does not parse, "errorCode" a 2xx answer
\* whose body carries an errorCode, "ok" a 2xx answer with a value.
PeerValues == {0, ExpectedInit}
FailKinds == {"error", "timeout", "status", "badjson", "errorCode"}
Answers ==
    [kind : FailKinds, value : {0}] \cup [kind : {"ok"}, value : PeerValues]
\* createAccount and faucet carry no AbortSignal (convex-client.js:78-84, 110-117)
AnswersNoTimeout == {a \in Answers : a.kind # "timeout"}
\* the answers drawn where many handlers interleave
SomeAnswers == {a \in Answers : a.kind \in {"timeout", "errorCode", "ok"}}
NoAnswer == [kind |-> "none", value |-> 0]

\* ------------------------------------------------------------------ texts and numbers
DigitChars == {"0", "1", "2", "3", "4", "5", "6", "7", "8", "9"}

DigitVal(c) ==
    CASE c = "0" -> 0 [] c = "1" -> 1 [] c = "2" -> 2 [] c = "3" -> 3
      [] c = "4" -> 4 [] c = "5" -> 5 [] c = "6" -> 6 [] c = "7" -> 7
      [] c = "8" -> 8 [] c = "9" -> 9

DigitChar(d) ==
    CASE d = 0 -> "0" [] d = 1 -> "1" [] d = 2 -> "2" [] d = 3 -> "3"
      [] d = 4 -> "4" [] d = 5 -> "5" [] d = 6 -> "6" [] d = 7 -> "7"
      [] d = 8 -> "8" [] d = 9 -> "9"

RECURSIVE Pow10(_)
Pow10(n) == IF n = 0 THEN 1 ELSE 10 * Pow10(n - 1)

One == Pow10(6)                 \* 1.0 in units of 10^-6

\* number of digit characters of s from position i on
RECURSIVE DigitRun(_, _)
DigitRun(s, i) ==
    IF i <= Len(s) /\ s[i] \in DigitChars THEN 1 + DigitRun(s, i + 1) ELSE 0

\* value of the n digits of s that start at position i
RECURSIVE DigitsValue(_, _, _)
DigitsValue(s, i, n) ==
    IF n = 0 THEN 0
    ELSE DigitsValue(s, i, n - 1) * 10 + DigitVal(s[i + n - 1])

\* how many characters of s form the longest decimal literal prefix
\* ([+-] digits [. digits]); 0 when there is none
LiteralLen(s) ==
    LET sgn == IF Len(s) >= 1 /\ s[1] \in {"-", "+"} THEN 1 ELSE 0
        nInt == DigitRun(s, sgn + 1)
        dot == sgn + nInt + 1
        hasDot == dot <= Len(s) /\ s[dot] = "."
        nFrac == IF hasDot THEN DigitRun(s, dot + 1) ELSE 0
    IN  IF nInt + nFrac = 0 THEN 0
        ELSE sgn + nInt + (IF hasDot THEN 1 + nFrac ELSE 0)

\* parseFloat: the value of the longest decimal literal prefix, NaN if none
parseFloat(s) ==
    LET sgn == IF Len(s) >= 1 /\ s[1] \in {"-", "+"} THEN 1 ELSE 0
        nInt == DigitRun(s, sgn + 1)
        dot == sgn + nInt + 1
        hasDot == dot <= Len(s) /\ s[dot] = "."
        nFrac == IF hasDot THEN DigitRun(s, dot + 1) ELSE 0
        mag == DigitsValue(s, sgn + 1, nInt) * One
                 + (IF nFrac <= 6
                    THEN DigitsValue(s, dot + 1, nFrac) * Pow10(6 - nFrac)
                    ELSE DigitsValue(s, dot + 1, nFrac) \div Pow10(nFrac - 6))
    IN  IF nInt + nFrac = 0 THEN NaN
        ELSE IF sgn = 1 /\ s[1] = "-" THEN Num(0 - mag) ELSE Num(mag)

\* the implicit string-to-number conversion of isNaN(amount) and amount <= 0:
\* the empty text is 0, a text that is a literal as a whole is its value
ToNumber(s) ==
    IF s = <<>> THEN Num(0)
    ELSE IF LiteralLen(s) = Len(s) THEN parseFloat(s) ELSE NaN

isNaN(s) == ToNumber(s).nan

\* value of an <input type="number"> after the user typed s: the text when it
\* is a valid floating-point number ([-] digits [. digits]), else empty
InputValue(s) ==
    IF /\ s # <<>>
       /\ LiteralLen(s) = Len(s)
       /\ s[1] # "+"
       /\ s[Len(s)] # "."
    THEN s ELSE <<>>

\* x * 0.97 without the slippage
Times097_full(x) == x

\* x * 0.97 (vortex-interface.js:268), exact for x of at most 4 decimals;
\* the product is split so that it stays within 32 bits
Times097(x) ==
    IF x.nan THEN NaN
    ELSE Num((x.v \div 100) * 97 + ((x.v % 100) * 97) \div 100)

\* the decimal digits of the natural number n
RECURSIVE NatText(_)
NatText(n) ==
    IF n < 10 THEN <<DigitChar(n)>>
    ELSE Append(NatText(n \div 10), DigitChar(n % 10))

\* Number.prototype.toFixed(4) of a number given in units of 10^-6
toFixed4(x) ==
    LET a == IF x < 0 THEN 0 - x ELSE x
        q == (a + 50) \div 100                  \* in units of 10^-4, half up
        f == q % 10000
        frac == <<DigitChar(f \div 1000), DigitChar((f \div 100) % 10),
                  DigitChar((f \div 10) % 10), DigitChar(f % 10)>>
    IN  (IF x < 0 THEN <<"-">> ELSE <<>>) \o NatText(q \div 10000) \o <<".">> \o frac

\* ------------------------------------------------------------------ ConvexClient
\* constructor, convex-client.js:7-16
NewClient ==
    [isConnected |-> FALSE, address |-> Null, keyPair |-> Null, sequence |-> 0]

\* setAddress that keeps the counter
setAddress_keepSequence(c, address) == [c EXCEPT !.address = address]

\* setAddress (convex-client.js:60-63)
setAddress(c, address) == [c EXCEPT !.address = address, !.sequence = 0]

setKeyPair(c, keyPair) == [c EXCEPT !.keyPair = keyPair]

\* close that only lowers the flag
close_flagOnly(c) == [c EXCEPT !.isConnected = FALSE]

\* close (convex-client.js:261-267)
close(c) ==
    [c EXCEPT !.isConnected = FALSE, !.address = Null, !.keyPair = Null,
              !.sequence = 0]

\* What a request that came back makes of its answer: query (131-158) and
\* the part of transact after the fetch (186-204) throw on every answer but
\* a 2xx one with a body without errorCode.
Thrown(ans) ==
    CASE ans.kind = "ok" -> "none"
      [] ans.kind = "error" -> "fetch failed"
      [] ans.kind = "timeout" -> "timeout"
      [] ans.kind = "status" -> "bad status"
      [] ans.kind = "badjson" -> "bad json"
      [] ans.kind = "errorCode" -> "peer error"

\* transact without its two checks
transactCheck_none(c) == "none"

\* transact, before the fetch (convex-client.js:164-170)
transactCheck(c) ==
    IF ~c.isConnected THEN "Not connected to Convex network"
    ELSE IF NoRef(c.address) THEN "No address set for transaction"
    ELSE "none"

\* transact that counts the request before it looks at the answer
transactDone_early(c, ans) == [c EXCEPT !.sequence = @ + 1]

\* transact, after the fetch (convex-client.js:186-204): the client it leaves
transactDone(c, ans) ==
    IF Thrown(ans) = "none" THEN [c EXCEPT !.sequence = @ + 1] ELSE c

\* getBalance whose catch throws the error on
getBalance_rethrow(ans) ==
    [thrown |-> Thrown(ans), value |-> IF Thrown(ans) = "none" THEN ans.value ELSE 0]

\* getBalance (convex-client.js:210-218): result.value || 0, and 0 on a throw
getBalance(ans) ==
    [thrown |-> "none",
     value |-> IF Thrown(ans) # "none" \/ ans.value = 0 THEN 0 ELSE ans.value]

\* getMarket (convex-client.js:248-256): result.value, null on a throw
getMarket(ans) ==
    [thrown |-> "none", null |-> Thrown(ans) # "none",
     value |-> IF Thrown(ans) = "none" THEN ans.value ELSE 0]

\* the rest of getTokenBalance (vortex-interface.js:241-250) once its query
\* is answered: the balance it returns.  Both branches return
\* result.value || 0, and the catch returns 0 for whatever was thrown.
getTokenBalanceDone(ans) ==
    IF Thrown(ans) # "none" \/ getBalance(ans).thrown # "none" THEN 0
    ELSE IF ans.value = 0 THEN 0 ELSE ans.value

\* initialize without the comparison of the test result (line 44)
initializeThrown_anyValue(ans) == Thrown(ans)

\* initialize that logs a failed query and goes on (no rethrow at line 53)
initializeThrown_swallow(ans) ==
    IF Thrown(ans) = "none" /\ ans.value # ExpectedInit
    THEN "Peer connection test failed" ELSE "none"

\* initialize, after its query (convex-client.js:43-54)
initializeThrown(ans) ==
    IF Thrown(ans) # "none" THEN Thrown(ans)
    ELSE IF ans.value # ExpectedInit THEN "Peer connection test failed"
    ELSE "none"

\* ConvexClient.connect (21-33) with initialize (38-55), createDemoAccount
\* (75-103) and requestFaucetCoins (108-126), resumed at `pc` of client c by
\* the answer ans.  given: the caller passed an address and a key pair.
connect(c, pc, given, ans) ==
    CASE pc = "init" ->
            IF initializeThrown(ans) # "none"
            THEN [client |-> c, pc |-> "failed", thrown |-> initializeThrown(ans),
                  issued |-> <<>>]
            ELSE IF given
            THEN [client |-> setKeyPair(setAddress([c EXCEPT !.isConnected = TRUE],
                                                   GivenAddress), GivenKeyPair),
                  pc |-> "done", thrown |-> "none", issued |-> <<>>]
            ELSE [client |-> [c EXCEPT !.isConnected = TRUE], pc |-> "create",
                  thrown |-> "none", issued |-> <<"createAccount">>]
      [] pc = "create" ->
            IF ans.kind \in {"ok", "errorCode"}
            THEN \* response.ok and a body: adopt accountData.address
                 [client |-> setKeyPair(
                                setAddress(c, IF ans.kind = "ok" THEN PeerAddress
                                              ELSE Undefined), AccountKey),
                  pc |-> "faucet", thrown |-> "none", issued |-> <<"faucet">>]
            ELSE \* not ok, or the fetch or the body threw: the demo account
                 [client |-> setKeyPair(setAddress(c, DemoAddress), DemoKeyPair),
                  pc |-> "done", thrown |-> "none", issued |-> <<>>]
      [] pc = "faucet" ->
            [client |-> c, pc |-> "done", thrown |-> "none", issued |-> <<>>]

\* ------------------------------------------------------------------ VorteXInterface
Symbols == {"CVX", "CVM", "PAI", "USDC", "TOKEN"}

\* this.tokens as the constructor sets it (vortex-interface.js:12-18)
tokens == [s \in Symbols |-> Null]

\* an address put into this.tokens once "real token addresses" are provided
\* (vortex-interface.js:11-17), and the registries that can result
TokenAddress == "#128"
Registries == [Symbols -> {Null, TokenAddress}]

IsNative(s) == s \in {"CVX", "CVM"}

\* executeSwap that knows CVX alone as the native token on the to side
swapKind_cvxOnly(from, to) ==
    IF IsNative(from) /\ to # "CVX" THEN "buy"
    ELSE IF from # "CVX" /\ from # "CVM" /\ IsNative(to) THEN "sell"
    ELSE "unsupported"

\* the branch executeSwap takes for a pair (vortex-interface.js:338-348)
swapKind(from, to) ==
    IF IsNative(from) /\ to # "CVX" /\ to # "CVM" THEN "buy"
    ELSE IF from # "CVX" /\ from # "CVM" /\ IsNative(to) THEN "sell"
    ELSE "unsupported"

\* String.prototype.toUpperCase on the answers the prompt is given here
toUpperCase(t) ==
    CASE t = "cvm" -> "CVM" [] t = "pai" -> "PAI" [] t = "usdc" -> "USDC"
      [] t = "doge" -> "DOGE" [] OTHER -> t

\* what the user types into the "You pay" field, and answers to the prompt
AmountTexts == {<<>>, <<"0">>, <<"-", "5">>, <<"1", "0", "0">>, <<"2", ".", "5">>,
                <<"0", ".", "0", "1">>}
\* texts a caller hands to onFromAmountChange that a number field never holds
CallTexts == {<<"a", "b", "c">>, <<"1", "2", "a">>}
PromptTexts == {Null, "CVX", "cvm", "PAI", "usdc", "TOKEN", "doge"}
\* the ones drawn where many handlers interleave
SomeAmountTexts == {<<>>, <<"1", "0", "0">>}
SomePromptTexts == {Null, "cvm", "doge"}

Note(type, msg) == [type |-> type, msg |-> msg, detail |-> "none"]
\* showNotification(`Swap failed: ${error.message}`, 'error'), line 363
SwapFailed(message) == [type |-> "error", msg |-> "Swap failed", detail |-> message]

VARIABLES
    convexClient,   \* this.convexClient: 0 for null, else the client's number
    isConnected,    \* this.isConnected of the controller
    isSwapping,     \* this.isSwapping
    registry,       \* this.tokens: the address registered for each symbol
    fromToken, toToken, fromAmount, toAmount,
    fromInput,      \* value of the "You pay" input element
    toInput,        \* value of the "You receive" input element
    clients,        \* the ConvexClient objects
    connects,       \* per client: where the ConvexClient.connect that made it stands
    swaps,          \* the executeSwap invocations suspended in transact
    refreshes,      \* how many updateBalances invocations wait for the balance
                    \* of the from token, and how many for that of the to token
    calls,          \* client methods called directly and suspended (SpecClient)
    ev              \* what the last step did: requests sent, notifications, results

vars == <<convexClient, isConnected, isSwapping, registry, fromToken, toToken, fromAmount,
          toAmount, fromInput, toInput, clients, connects, swaps, refreshes,
          calls, ev>>

ctlVars == <<convexClient, isConnected, isSwapping, registry, fromToken, toToken,
             fromAmount, toAmount, fromInput, toInput>>

ClientIds == 1..MaxClients

NoConnect == [pc |-> "unborn", caller |-> "none", given |-> FALSE]
NoSwap == [pc |-> "idle", client |-> 0, kind |-> "none"]
NoRefresh == [from |-> 0, to |-> 0]
NoCall == [op |-> "none", client |-> 0]

Event(op) ==
    [op |-> op, client |-> 0, ans |-> NoAnswer, issued |-> <<>>, notes |-> <<>>,
     thrown |-> "none", ret |-> "none", value |-> 0, refresh |-> FALSE,
     arg |-> <<>>]

Init ==
    /\ convexClient = 0
    /\ isConnected = FALSE
    /\ isSwapping = FALSE
    /\ registry = tokens
    /\ fromToken = "CVX"
    /\ toToken = "PAI"
    /\ fromAmount = Num(0)
    /\ toAmount = Num(0)
    /\ fromInput = <<>>
    /\ toInput = <<>>
    /\ clients = [i \in ClientIds |-> NewClient]
    /\ connects = [i \in ClientIds |-> NoConnect]
    /\ swaps = [k \in 1..MaxSwaps |-> NoSwap]
    /\ refreshes = NoRefresh
    /\ calls = [k \in 1..MaxCalls |-> NoCall]
    /\ ev = Event("init")

Min(S) == CHOOSE x \in S : \A y \in S : x <= y

\* the connect `cn` moved to pc; the client of a connect that threw was
\* handed to nobody, and its place is free again
Connect(cn, pc) == IF pc = "failed" THEN NoConnect ELSE [cn EXCEPT !.pc = pc]

Unborn == {i \in ClientIds : connects[i].pc = "unborn"}
Connecting == {i \in ClientIds : connects[i].pc \in {"init", "create", "faucet"}}
ActiveSwaps == {k \in 1..MaxSwaps : swaps[k].pc # "idle"}
IdleSwaps == {k \in 1..MaxSwaps : swaps[k].pc = "idle"}
IdleRefreshes == MaxRefresh - refreshes.from - refreshes.to

\* Every suspended connectWallet and executeSwap may call updateBalances when
\* it resumes; a handler is started only if a place for that call stays free.
Room == IdleRefreshes > Cardinality(Connecting) + Cardinality(ActiveSwaps)

\* getTokenBalance that looks at the registered address only
getTokenBalance_addressOnly(tokenSymbol, cl) ==
    IF cl = 0 THEN "none"
    ELSE IF NoRef(registry[tokenSymbol]) THEN "query:balance"
    ELSE "query:call"

\* getTokenBalance up to its await (vortex-interface.js:234-246): the request
\* it sends for tokenSymbol when the controller's client is cl
getTokenBalance(tokenSymbol, cl) ==
    IF cl = 0 THEN "none"
    ELSE IF NoRef(registry[tokenSymbol]) \/ tokenSymbol = "CVX" \/ tokenSymbol = "CVM"
    THEN "query:balance"
    ELSE "query:call"

\* updateBalances up to its first await (vortex-interface.js:197-202), called
\* when the controller's fields are conn and cl: the request it sends
updateBalances(conn, cl, from) ==
    IF ~conn \/ cl = 0 THEN "none" ELSE getTokenBalance(from, cl)

\* the refreshes after a call of updateBalances that sends request req
Refreshed(req) ==
    IF req = "none" THEN refreshes
    ELSE [refreshes EXCEPT !.from = @ + 1]

Sent(req) == IF req = "none" THEN <<>> ELSE <<req>>

\* ------------------------------------------------------------------ connect and disconnect
\* connectWallet up to its await (vortex-interface.js:125-130): ConvexClient.connect
\* makes a client and initialize sends the test query (convex-client.js:22-23, 43)
connectWallet ==
    /\ Unborn # {}
    /\ Room
    /\ connects' = [connects EXCEPT ![Min(Unborn)] =
                        [pc |-> "init", caller |-> "wallet", given |-> FALSE]]
    /\ ev' = [Event("connectWallet") EXCEPT !.client = Min(Unborn),
                                            !.issued = <<"query:init">>]
    /\ UNCHANGED <<ctlVars, clients, swaps, refreshes, calls>>

\* toggleConnection whose disconnect keeps the reference to the closed client
toggleConnection_keepsReference ==
    IF isConnected
    THEN IF convexClient = 0
         THEN /\ ev' = [Event("toggleConnection") EXCEPT !.thrown = "TypeError"]
              /\ UNCHANGED <<ctlVars, clients, connects, swaps, refreshes, calls>>
         ELSE /\ clients' = [clients EXCEPT ![convexClient] = close(@)]
              /\ isConnected' = FALSE
              /\ ev' = [Event("toggleConnection") EXCEPT
                            !.client = convexClient,
                            !.notes = <<Note("info", "Disconnected from Convex")>>]
              /\ UNCHANGED <<convexClient, isSwapping, registry, fromToken, toToken,
                             fromAmount, toAmount, fromInput, toInput, connects,
                             swaps, refreshes, calls>>
    ELSE connectWallet

\* toggleConnection (vortex-interface.js:108-120)
toggleConnection ==
    IF isConnected
    THEN IF convexClient = 0
         THEN /\ ev' = [Event("toggleConnection") EXCEPT !.thrown = "TypeError"]
              /\ UNCHANGED <<ctlVars, clients, connects, swaps, refreshes, calls>>
         ELSE /\ clients' = [clients EXCEPT ![convexClient] = close(@)]
              /\ convexClient' = 0
              /\ isConnected' = FALSE
              /\ ev' = [Event("toggleConnection") EXCEPT
                            !.client = convexClient,
                            !.notes = <<Note("info", "Disconnected from Convex")>>]
              /\ UNCHANGED <<isSwapping, registry, fromToken, toToken, fromAmount,
                             toAmount, fromInput, toInput, connects, swaps,
                             refreshes, calls>>
    ELSE connectWallet

\* connectWallet resumed by the answer to the request ConvexClient.connect
\* waits for (vortex-interface.js:130-143)
connectWalletResume(i, ans) ==
    /\ connects[i].caller = "wallet"
    /\ connects[i].pc \in {"init", "create", "faucet"}
    /\ connects[i].pc # "init" => ans.kind # "timeout"
    /\ LET r == connect(clients[i], connects[i].pc, connects[i].given, ans)
           req == updateBalances(TRUE, i, fromToken)
       IN  /\ clients' = [clients EXCEPT ![i] = r.client]
           /\ connects' = [connects EXCEPT ![i] = Connect(@, r.pc)]
           /\ IF r.pc = "done"
              THEN /\ convexClient' = i
                   /\ isConnected' = TRUE
                   /\ refreshes' = Refreshed(req)
                   /\ ev' = [Event("connectWallet.resume") EXCEPT
                                !.client = i, !.ans = ans, !.issued = Sent(req),
                                !.refresh = TRUE, !.ret = "client",
                                !.notes = <<Note("success", "Connected to Convex network!")>>]
              ELSE /\ UNCHANGED <<convexClient, isConnected, refreshes>>
                   /\ ev' = [Event("connectWallet.resume") EXCEPT
                                !.client = i, !.ans = ans, !.issued = r.issued,
                                !.thrown = r.thrown,
                                !.notes = IF r.pc = "failed"
                                          THEN <<Note("error", "Failed to connect to Convex network. Please try again.")>>
                                          ELSE <<>>]
    /\ UNCHANGED <<isSwapping, registry, fromToken, toToken, fromAmount, toAmount,
                   fromInput, toInput, swaps, calls>>

\* ------------------------------------------------------------------ swap
\* executeSwap without its re-entry guard
ReentryBlocked_off == FALSE

\* the re-entry guard of executeSwap (vortex-interface.js:323)
ReentryBlocked == isSwapping

\* executeSwap that looks at the pair before it looks at the amount
executeSwapThrown_pairFirst ==
    LET amount == parseFloat(fromInput)
    IN  IF swapKind(fromToken, toToken) = "unsupported"
        THEN "Token-to-token swaps not implemented yet. Please swap through CVX."
        ELSE IF NumFalsy(amount) \/ NumLeqZero(amount) THEN "Please enter a valid amount"
        ELSE IF convexClient = 0 THEN "TypeError"
        ELSE transactCheck(clients[convexClient])

\* what executeSwap throws before it awaits (vortex-interface.js:329-348 and
\* the checks of transact, convex-client.js:164-170); "none" if it sends
executeSwapThrown ==
    LET amount == parseFloat(fromInput)
    IN  IF NumFalsy(amount) \/ NumLeqZero(amount) THEN "Please enter a valid amount"
        ELSE IF swapKind(fromToken, toToken) = "unsupported"
        THEN "Token-to-token swaps not implemented yet. Please swap through CVX."
        ELSE IF convexClient = 0 THEN "TypeError"
        ELSE transactCheck(clients[convexClient])

\* executeSwap that calls updateBalances from `finally`, on every outcome
executeSwapEnd_always(thrown) ==
    IF thrown = "none"
    THEN [notes |-> <<Note("success", "Swap completed successfully!")>>,
          clear |-> TRUE, refresh |-> TRUE]
    ELSE [notes |-> <<SwapFailed(thrown)>>, clear |-> FALSE, refresh |-> TRUE]

\* the end of executeSwap (vortex-interface.js:350-366) after its try block
\* threw `thrown` ("none": it ran through): the notification, and whether the
\* inputs are cleared and updateBalances is called
executeSwapEnd(thrown) ==
    IF thrown = "none"
    THEN [notes |-> <<Note("success", "Swap completed successfully!")>>,
          clear |-> TRUE, refresh |-> TRUE]
    ELSE [notes |-> <<SwapFailed(thrown)>>, clear |-> FALSE, refresh |-> FALSE]

\* executeSwap that lowers the flag at the end of its try block only
isSwappingAfter_noFinally(thrown) == thrown # "none"

\* isSwapping as the `finally` of executeSwap leaves it
\* (vortex-interface.js:364-366), whatever the try block threw
isSwappingAfter(thrown) == FALSE

\* executeSwap from `finally` back to line 350, after the try block threw
\* `thrown`, for the client `c` the transact was sent on (0: none was sent)
executeSwapFinish(thrown, c, ans) ==
    LET end == executeSwapEnd(thrown)
        req == IF end.refresh
               THEN updateBalances(isConnected, convexClient, fromToken)
               ELSE "none"
    IN  /\ isSwapping' = isSwappingAfter(thrown)
        /\ fromInput' = IF end.clear THEN <<>> ELSE fromInput
        /\ toInput' = IF end.clear THEN <<>> ELSE toInput
        /\ fromAmount' = IF end.clear THEN Num(0) ELSE fromAmount
        /\ toAmount' = IF end.clear THEN Num(0) ELSE toAmount
        /\ refreshes' = Refreshed(req)
        /\ ev' = [Event(IF c = 0 THEN "executeSwap" ELSE "executeSwap.resume") EXCEPT
                     !.client = c, !.ans = ans, !.thrown = thrown,
                     !.ret = "completed", !.notes = end.notes,
                     !.refresh = end.refresh, !.issued = Sent(req)]

\* executeSwap up to its await, or to its end (vortex-interface.js:317-348, 360-366)
executeSwap ==
    IF ~isConnected
    THEN /\ ev' = [Event("executeSwap") EXCEPT
                      !.ret = "refused",
                      !.notes = <<Note("error", "Please connect your wallet first")>>]
         /\ UNCHANGED <<ctlVars, clients, connects, swaps, refreshes, calls>>
    ELSE IF ReentryBlocked
    THEN /\ ev' = [Event("executeSwap") EXCEPT !.ret = "blocked"]
         /\ UNCHANGED <<ctlVars, clients, connects, swaps, refreshes, calls>>
    ELSE IF executeSwapThrown # "none"
    THEN /\ executeSwapFinish(executeSwapThrown, 0, NoAnswer)
         /\ UNCHANGED <<convexClient, isConnected, registry, fromToken, toToken,
                        clients, connects, swaps, calls>>
    ELSE /\ Room
         /\ IdleSwaps # {}
         /\ isSwapping' = TRUE
         /\ swaps' = [swaps EXCEPT ![Min(IdleSwaps)] =
                         [pc |-> "transact", client |-> convexClient,
                          kind |-> swapKind(fromToken, toToken)]]
         /\ ev' = [Event("executeSwap") EXCEPT
                      !.client = convexClient, !.ret = "suspended",
                      !.issued = <<IF swapKind(fromToken, toToken) = "buy"
                                   THEN "transact:buy" ELSE "transact:sell">>]
         /\ UNCHANGED <<convexClient, isConnected, registry, fromToken, toToken,
                        fromAmount, toAmount, fromInput, toInput, clients,
                        connects, refreshes, calls>>

\* executeSwap resumed by the answer to its transact (convex-client.js:186-204,
\* vortex-interface.js:350-366)
executeSwapResume(k, ans) ==
    /\ swaps[k].pc = "transact"
    /\ Thrown(ans) = "none" => clients[swaps[k].client].sequence < MaxSeq
    /\ clients' = [clients EXCEPT ![swaps[k].client] = transactDone(@, ans)]
    /\ swaps' = [swaps EXCEPT ![k] = NoSwap]
    /\ executeSwapFinish(Thrown(ans), swaps[k].client, ans)
    /\ UNCHANGED <<convexClient, isConnected, registry, fromToken, toToken,
                   connects, calls>>

\* ------------------------------------------------------------------ balances
\* the setInterval callback (vortex-interface.js:98-102)
timer ==
    /\ isConnected => Room
    /\ LET req == IF isConnected
                  THEN updateBalances(isConnected, convexClient, fromToken)
                  ELSE "none"
       IN  /\ refreshes' = Refreshed(req)
           /\ ev' = [Event("timer") EXCEPT !.issued = Sent(req),
                                           !.refresh = isConnected]
    /\ UNCHANGED <<ctlVars, clients, connects, swaps, calls>>

\* updateBalances resumed by the answer to a balance query: the rest of
\* getTokenBalance (vortex-interface.js:241-250, convex-client.js:212-217),
\* then the second getTokenBalance or the display (vortex-interface.js:203-224)
updateBalancesResume(pc, ans) ==
    /\ refreshes[pc] > 0
    /\ LET req == IF pc = "from"
                  THEN getTokenBalance(toToken, convexClient)
                  ELSE "none"
       IN  /\ refreshes' = IF pc = "to" THEN [refreshes EXCEPT !.to = @ - 1]
                           ELSE IF req = "none" THEN [refreshes EXCEPT !.from = @ - 1]
                           ELSE [refreshes EXCEPT !.from = @ - 1, !.to = @ + 1]
           /\ ev' = [Event("getTokenBalance") EXCEPT
                        !.ans = ans, !.issued = Sent(req), !.ret = "value",
                        !.value = getTokenBalanceDone(ans)]
    /\ UNCHANGED <<ctlVars, clients, connects, swaps, calls>>

\* ------------------------------------------------------------------ inputs
\* the test of line 257 made on parseFloat(amount) in place of amount
onFromAmountRejected_parsed(amount) ==
    \/ ~isConnected
    \/ NumFalsy(parseFloat(amount))
    \/ NumLeqZero(parseFloat(amount))

\* the test of onFromAmountChange (vortex-interface.js:257) on the text amount:
\* !this.isConnected || !amount || isNaN(amount) || amount <= 0
onFromAmountRejected(amount) ==
    \/ ~isConnected
    \/ amount = <<>>
    \/ isNaN(amount)
    \/ NumLeqZero(ToNumber(amount))

\* onFromAmountChange(amount) (vortex-interface.js:256-279) but for the
\* "You pay" field, which its caller may have changed
onFromAmountChangeWith(amount) ==
    LET estimatedOutput == Times097(parseFloat(amount))
    IN  /\ IF onFromAmountRejected(amount)
           THEN /\ toInput' = <<>>
                /\ UNCHANGED <<fromAmount, toAmount>>
           ELSE /\ fromAmount' = parseFloat(amount)
                /\ toInput' = toFixed4(estimatedOutput.v)
                /\ toAmount' = estimatedOutput
        /\ ev' = [Event("onFromAmountChange") EXCEPT !.arg = amount]
        /\ UNCHANGED <<convexClient, isConnected, isSwapping, registry, fromToken,
                       toToken, clients, connects, swaps, refreshes, calls>>

\* the user types `text` into the "You pay" field and the input event calls
\* onFromAmountChange with the field's value (vortex-interface.js:82-86)
onFromAmountChange(text) ==
    /\ fromInput' = InputValue(text)
    /\ onFromAmountChangeWith(InputValue(text))

\* onFromAmountChange(amount) called with a text of the caller's, not by the
\* input event (window.vortexInterface, vortex-interface.js:429-436)
onFromAmountChangeCall(amount) ==
    /\ UNCHANGED fromInput
    /\ onFromAmountChangeWith(amount)

\* the exchange written as two assignments, one after the other
swappedPair_sequential(from, to) == <<to, to>>

\* [this.fromToken, this.toToken] = [this.toToken, this.fromToken]
\* (vortex-interface.js:286): the new pair
swappedPair(from, to) == <<to, from>>

\* swapTokenPositions (vortex-interface.js:284-301); the event keeps the pair
\* it found and whether the step before was a swapTokenPositions too
swapTokenPositions ==
    /\ isConnected => Room
    /\ fromToken' = swappedPair(fromToken, toToken)[1]
    /\ toToken' = swappedPair(fromToken, toToken)[2]
    /\ fromInput' = <<>>
    /\ toInput' = <<>>
    /\ fromAmount' = Num(0)
    /\ toAmount' = Num(0)
    /\ LET req == IF isConnected
                  THEN updateBalances(isConnected, convexClient, fromToken')
                  ELSE "none"
       IN  /\ refreshes' = Refreshed(req)
           /\ ev' = [Event("swapTokenPositions") EXCEPT
                        !.issued = Sent(req), !.refresh = isConnected,
                        !.arg = <<fromToken, toToken>>,
                        !.value = IF ev.op = "swapTokenPositions" THEN 2 ELSE 1]
    /\ UNCHANGED <<convexClient, isConnected, isSwapping, registry, clients,
                   connects, swaps, calls>>

\* showTokenSelector (vortex-interface.js:372-391); selectedToken is what
\* the prompt returned (Null when the user cancelled)
showTokenSelector(position, selectedToken) ==
    IF selectedToken # Null /\ toUpperCase(selectedToken) \in DOMAIN registry
    THEN /\ isConnected => Room
         /\ fromToken' = IF position = "from" THEN toUpperCase(selectedToken)
                         ELSE fromToken
         /\ toToken' = IF position = "from" THEN toToken
                       ELSE toUpperCase(selectedToken)
         /\ LET req == IF isConnected
                       THEN updateBalances(isConnected, convexClient, fromToken')
                       ELSE "none"
            IN  /\ refreshes' = Refreshed(req)
                /\ ev' = [Event("showTokenSelector") EXCEPT !.issued = Sent(req),
                                                            !.refresh = isConnected]
         /\ UNCHANGED <<convexClient, isConnected, isSwapping, registry, fromAmount,
                        toAmount, fromInput, toInput, clients, connects, swaps,
                        calls>>
    ELSE /\ ev' = Event("showTokenSelector")
         /\ UNCHANGED <<ctlVars, clients, connects, swaps, refreshes, calls>>

\* ------------------------------------------------------------------ the page
\* any interleaving of the handlers of the page
Next ==
    \/ toggleConnection
    \/ \E i \in ClientIds, ans \in SomeAnswers : connectWalletResume(i, ans)
    \/ executeSwap
    \/ \E k \in 1..MaxSwaps, ans \in SomeAnswers : executeSwapResume(k, ans)
    \/ timer
    \/ \E pc \in {"from", "to"}, ans \in SomeAnswers : updateBalancesResume(pc, ans)
    \/ \E text \in SomeAmountTexts : onFromAmountChange(text)
    \/ swapTokenPositions
    \/ \E position \in {"from", "to"}, selectedToken \in SomePromptTexts :
          showTokenSelector(position, selectedToken)

Spec == Init /\ [][Next]_vars

\* nothing is suspended: no connect, no swap, no balance refresh
Quiet == Connecting = {} /\ ActiveSwaps = {} /\ refreshes = NoRefresh

\* a user who waits for each operation to end before the next one, and who
\* picks among all tokens and amounts
NextSeq ==
    \/ Quiet /\ toggleConnection
    \/ \E i \in ClientIds, ans \in Answers : connectWalletResume(i, ans)
    \/ Quiet /\ executeSwap
    \/ \E k \in 1..MaxSwaps, ans \in Answers : executeSwapResume(k, ans)
    \/ \E pc \in {"from", "to"}, ans \in Answers : updateBalancesResume(pc, ans)
    \/ \E text \in AmountTexts : Quiet /\ onFromAmountChange(text)
    \/ \E amount \in CallTexts : Quiet /\ onFromAmountChangeCall(amount)
    \/ Quiet /\ swapTokenPositions
    \/ \E position \in {"from", "to"}, selectedToken \in PromptTexts :
          Quiet /\ showTokenSelector(position, selectedToken)

SpecSeq == Init /\ [][NextSeq]_vars

\* Every transact carries AbortSignal.timeout(this.timeout)
\* (convex-client.js:183): its fetch settles, with an answer or with the
\* timeout, and the browser then runs the rest of executeSwap.
FairSpec ==
    Spec /\ WF_vars(\E k \in 1..MaxSwaps, ans \in SomeAnswers : executeSwapResume(k, ans))

\* The page configured with token addresses: this.tokens holds any mix of
\* registered and missing addresses; the user picks tokens, also while a
\* refresh waits for its answer, and the timer refreshes the balances.
InitRegistry ==
    /\ registry \in Registries
    /\ convexClient = 0
    /\ isConnected = FALSE
    /\ isSwapping = FALSE
    /\ fromToken = "CVX"
    /\ toToken = "PAI"
    /\ fromAmount = Num(0)
    /\ toAmount = Num(0)
    /\ fromInput = <<>>
    /\ toInput = <<>>
    /\ clients = [i \in ClientIds |-> NewClient]
    /\ connects = [i \in ClientIds |-> NoConnect]
    /\ swaps = [k \in 1..MaxSwaps |-> NoSwap]
    /\ refreshes = NoRefresh
    /\ calls = [k \in 1..MaxCalls |-> NoCall]
    /\ ev = Event("init")

NextRegistry ==
    \/ Quiet /\ toggleConnection
    \/ \E i \in ClientIds, ans \in SomeAnswers : connectWalletResume(i, ans)
    \/ Quiet /\ timer
    \/ \E pc \in {"from", "to"}, ans \in SomeAnswers : updateBalancesResume(pc, ans)
    \/ Quiet /\ swapTokenPositions
    \/ \E position \in {"from", "to"}, selectedToken \in PromptTexts :
          showTokenSelector(position, selectedToken)

SpecRegistry == InitRegistry /\ [][NextRegistry]_vars

\* ------------------------------------------------------------------ the client used directly
\* The client's methods called by a program other than the controller (a
\* test, the console): SpecClient.  The controller stays as constructed.
\* ConvexClient has no static state, so its instances do not affect one
\* another and one instance is followed.
AsyncMethods == {"initialize", "createDemoAccount", "query", "transact",
                 "buyTokens", "sellTokens", "getBalance", "getMarket"}
SyncMethods == {"setAddress", "setKeyPair", "close"}

\* the request a method sends first
Request(method) ==
    CASE method = "initialize" -> "query:init"
      [] method = "createDemoAccount" -> "createAccount"
      [] method = "requestFaucetCoins" -> "faucet"
      [] method = "query" -> "query"
      [] method = "transact" -> "transact"
      [] method = "buyTokens" -> "transact:buy"
      [] method = "sellTokens" -> "transact:sell"
      [] method = "getBalance" -> "query:balance"
      [] method = "getMarket" -> "query:market"

IsTransact(method) == method \in {"transact", "buyTokens", "sellTokens"}

\* the clients a caller holds: constructed, or returned by ConvexClient.connect
Usable == {i \in ClientIds : connects[i].caller \in {"new", "direct"}
                              /\ connects[i].pc = "done"}
Direct == {i \in ClientIds : connects[i].caller \in {"new", "direct"}}
IdleCalls == {k \in 1..MaxCalls : calls[k].op = "none"}

\* new ConvexClient() (convex-client.js:7-16)
construct ==
    /\ Direct = {}
    /\ Unborn # {}
    /\ connects' = [connects EXCEPT ![Min(Unborn)] =
                        [pc |-> "done", caller |-> "new", given |-> FALSE]]
    /\ ev' = [Event("new") EXCEPT !.client = Min(Unborn)]
    /\ UNCHANGED <<ctlVars, clients, swaps, refreshes, calls>>

\* ConvexClient.connect(url, address, keyPair) up to the await in initialize
\* (convex-client.js:21-23, 38-43); given: address and keyPair were passed
staticConnect(given) ==
    /\ Direct = {}
    /\ Unborn # {}
    /\ connects' = [connects EXCEPT ![Min(Unborn)] =
                        [pc |-> "init", caller |-> "direct", given |-> given]]
    /\ ev' = [Event("connect") EXCEPT !.client = Min(Unborn),
                                      !.issued = <<"query:init">>]
    /\ UNCHANGED <<ctlVars, clients, swaps, refreshes, calls>>

\* ConvexClient.connect resumed by the answer to the request it waits for
staticConnectResume(i, ans) ==
    /\ connects[i].caller = "direct"
    /\ connects[i].pc \in {"init", "create", "faucet"}
    /\ connects[i].pc # "init" => ans.kind # "timeout"
    /\ LET r == connect(clients[i], connects[i].pc, connects[i].given, ans)
       IN  /\ clients' = [clients EXCEPT ![i] = r.client]
           /\ connects' = [connects EXCEPT ![i] = Connect(@, r.pc)]
           /\ ev' = [Event("connect.resume") EXCEPT
                        !.client = i, !.ans = ans, !.issued = r.issued,
                        !.thrown = r.thrown,
                        !.ret = IF r.pc = "done" THEN "client" ELSE "none"]
    /\ UNCHANGED <<ctlVars, swaps, refreshes, calls>>

\* setAddress, setKeyPair, close called on client i (convex-client.js:60-70, 261-267)
invokeSync(i, method) ==
    /\ i \in Usable
    /\ clients' = [clients EXCEPT ![i] =
                      CASE method = "setAddress" -> setAddress(@, GivenAddress)
                        [] method = "setKeyPair" -> setKeyPair(@, GivenKeyPair)
                        [] method = "close" -> close(@)]
    /\ ev' = [Event(method) EXCEPT !.client = i]
    /\ UNCHANGED <<ctlVars, connects, swaps, refreshes, calls>>

\* an async method called on client i, up to its first await or to its throw
\* (transact: convex-client.js:163-184; the others send at once)
invoke(i, method) ==
    /\ i \in Usable
    /\ IF IsTransact(method) /\ transactCheck(clients[i]) # "none"
       THEN /\ ev' = [Event(method) EXCEPT !.client = i,
                                           !.thrown = transactCheck(clients[i])]
            /\ UNCHANGED calls
       ELSE /\ IdleCalls # {}
            /\ calls' = [calls EXCEPT ![Min(IdleCalls)] = [op |-> method, client |-> i]]
            /\ ev' = [Event(method) EXCEPT !.client = i,
                                           !.issued = <<Request(method)>>]
    /\ UNCHANGED <<ctlVars, clients, connects, swaps, refreshes>>

\* the method suspended in place k resumed by the answer to its request
invokeResume(k, ans) ==
    LET method == calls[k].op
        i == calls[k].client
        r == connect(clients[i], IF method = "createDemoAccount" THEN "create"
                                 ELSE "faucet", FALSE, ans)
    IN  /\ method # "none"
        /\ method \in {"createDemoAccount", "requestFaucetCoins"} => ans.kind # "timeout"
        /\ (IsTransact(method) /\ Thrown(ans) = "none") =>
              clients[i].sequence < MaxSeqDirect
        /\ clients' = [clients EXCEPT ![i] =
              CASE method = "initialize" ->
                      IF initializeThrown(ans) = "none"
                      THEN [@ EXCEPT !.isConnected = TRUE] ELSE @
                [] method \in {"createDemoAccount", "requestFaucetCoins"} -> r.client
                [] IsTransact(method) -> transactDone(@, ans)
                [] OTHER -> @]
        /\ calls' = [calls EXCEPT ![k] =
              IF method = "createDemoAccount" /\ r.pc = "faucet"
              THEN [op |-> "requestFaucetCoins", client |-> i] ELSE NoCall]
        /\ ev' = [Event(method \o ".resume") EXCEPT
              !.client = i, !.ans = ans,
              !.issued = IF method = "createDemoAccount" THEN r.issued ELSE <<>>,
              !.thrown = CASE method = "initialize" -> initializeThrown(ans)
                           [] method = "query" \/ IsTransact(method) -> Thrown(ans)
                           [] method = "getBalance" -> getBalance(ans).thrown
                           [] method = "getMarket" -> getMarket(ans).thrown
                           [] OTHER -> "none",
              !.ret = CASE method = "getBalance" ->
                              IF getBalance(ans).thrown = "none" THEN "value" ELSE "none"
                        [] method = "getMarket" ->
                              IF getMarket(ans).null THEN "null" ELSE "value"
                        [] method = "createDemoAccount" /\ r.pc = "faucet" -> "none"
                        [] method \in {"createDemoAccount", "requestFaucetCoins"} -> "returned"
                        [] method = "initialize" ->
                              IF initializeThrown(ans) = "none" THEN "returned" ELSE "none"
                        [] OTHER -> IF Thrown(ans) = "none" THEN "value" ELSE "none",
              !.value = CASE method = "getBalance" -> getBalance(ans).value
                          [] method \in {"createDemoAccount", "requestFaucetCoins"} -> 0
                          [] OTHER -> IF Thrown(ans) = "none" THEN ans.value ELSE 0]
        /\ UNCHANGED <<ctlVars, connects, swaps, refreshes>>

NextClient ==
    \/ construct
    \/ \E given \in BOOLEAN : staticConnect(given)
    \/ \E i \in ClientIds, ans \in Answers : staticConnectResume(i, ans)
    \/ \E i \in ClientIds, method \in SyncMethods : invokeSync(i, method)
    \/ \E i \in ClientIds, method \in AsyncMethods : invoke(i, method)
    \/ \E k \in 1..MaxCalls, ans \in Answers : invokeResume(k, ans)

SpecClient == Init /\ [][NextClient]_vars

\* the balance and market lookups, made by the controller (on connect and on
\* the timer) and by a direct caller of the client
NextLookups ==
    \/ toggleConnection
    \/ \E i \in ClientIds, ans \in Answers : connectWalletResume(i, ans)
    \/ timer
    \/ \E pc \in {"from", "to"}, ans \in Answers : updateBalancesResume(pc, ans)
    \/ construct
    \/ \E i \in ClientIds, method \in {"getBalance", "getMarket"} : invoke(i, method)
    \/ \E k \in 1..MaxCalls, ans \in Answers : invokeResume(k, ans)

SpecLookups == Init /\ [][NextLookups]_vars

\* ------------------------------------------------------------------ claims
ErrorCodeAnswer == [kind |-> "errorCode", value |-> 0]
TimeoutAnswer == [kind |-> "timeout", value |-> 0]
SwapSuccessNote == Note("success", "Swap completed successfully!")
ConnectFirstNote == Note("error", "Please connect your wallet first")
ConnectFailedNote == Note("error", "Failed to connect to Convex network. Please try again.")
ConnectedNote == Note("success", "Connected to Convex network!")

\* C1: in every reachable state at most one executeSwap is suspended in a
\* transact request, and while one is, isSwapping is true.
C1_OneTransactInFlight ==
    /\ Cardinality(ActiveSwaps) <= 1
    /\ ActiveSwaps # {} => isSwapping

\* C1 witness: a transact is still in flight on a client the user has since
\* left (disconnect, reconnect to another client), and an executeSwap called
\* on the new connection was turned away.
C1_Witness ==
    /\ \E k \in ActiveSwaps : isConnected /\ convexClient # swaps[k].client
    /\ ev.op = "executeSwap"
    /\ ev.ret = "blocked"

\* C2 as claimed: executeSwap called while isSwapping is true does nothing in
\* every controller state: no request, no notification, no field changed.
C2_NoOpInEveryState ==
    [][(isSwapping /\ executeSwap) =>
          /\ ev'.issued = <<>>
          /\ ev'.notes = <<>>
          /\ UNCHANGED <<ctlVars, clients, connects, swaps, refreshes>>]_vars

\* C2 amended: executeSwap called while isSwapping is true sends no request
\* and changes no field; it emits no notification while the controller is
\* connected, and the connect-first error notification while it is not.
C2_NoOpWhileSwapping ==
    [][(isSwapping /\ executeSwap) =>
          /\ ev'.issued = <<>>
          /\ ev'.notes = IF isConnected THEN <<>> ELSE <<ConnectFirstNote>>
          /\ UNCHANGED <<ctlVars, clients, connects, swaps, refreshes>>]_vars

\* C2 witness: executeSwap was turned away by the guard while amounts were entered.
C2_Witness ==
    /\ ev.op = "executeSwap"
    /\ ev.ret = "blocked"
    /\ isSwapping
    /\ fromAmount.v > 0
    /\ toAmount.v > 0

\* C3: with the controller connected, no swap running and a positive amount
\* in the "You pay" field, executeSwap on a pair whose tokens are both native
\* aliases or both not (fromToken = toToken included) ends at once with the
\* unsupported-swap failure notification and sends no request.
C3_UnsupportedPairFails ==
    [][(/\ isConnected
        /\ ~isSwapping
        /\ ~parseFloat(fromInput).nan
        /\ parseFloat(fromInput).v > 0
        /\ (fromToken \in {"CVX", "CVM"}) = (toToken \in {"CVX", "CVM"})
        /\ executeSwap) =>
          /\ ev'.notes = <<SwapFailed("Token-to-token swaps not implemented yet. Please swap through CVX.")>>
          /\ ev'.issued = <<>>
          /\ ~isSwapping'
          /\ UNCHANGED <<clients, connects, swaps, refreshes>>]_vars

\* C3 witness: the failure on a pair of two different non-native tokens.
C3_Witness ==
    /\ ev.op = "executeSwap"
    /\ ev.thrown = "Token-to-token swaps not implemented yet. Please swap through CVX."
    /\ fromToken \notin {"CVX", "CVM"}
    /\ toToken \notin {"CVX", "CVM"}
    /\ fromToken # toToken

\* C4 as claimed: every executeSwap that set the in-flight flag calls
\* updateBalances when it completes, whether it succeeded or failed.
C4_RefreshOnEveryCompletion ==
    ev.ret = "completed" => ev.refresh

\* C4 amended: an executeSwap that set the in-flight flag calls updateBalances
\* when it completes exactly if the swap succeeded; after a failure (invalid
\* amount, unsupported pair, transact failure) it calls none.  The call sends
\* a balance query exactly if the controller is connected at that moment.
C4_RefreshOnSuccessOnly ==
    ev.ret = "completed" =>
        /\ ev.refresh <=> ev.thrown = "none"
        /\ ev.issued # <<>> <=> (ev.refresh /\ isConnected)

\* C4 witness: a swap succeeded and its refresh sent a balance query.
C4_Witness ==
    /\ ev.op = "executeSwap.resume"
    /\ ev.ret = "completed"
    /\ ev.thrown = "none"
    /\ ev.refresh
    /\ ev.issued = <<"query:balance">>

\* C5: every executeSwap that set isSwapping sets it back to false, whatever
\* the answer to its transact and also when only the timeout answers; and
\* isSwapping is true only while an executeSwap is suspended in its transact.
C5_SwappingEnds ==
    /\ [](isSwapping => ActiveSwaps # {})
    /\ (isSwapping ~> ~isSwapping)

\* C5 witness: a swap whose transact ran into the timeout has ended and the
\* flag is down.
C5_Witness ==
    /\ ev.op = "executeSwap.resume"
    /\ ev.ans.kind = "timeout"
    /\ ~isSwapping

\* C6: when the transact of an executeSwap is answered with HTTP 200 and a
\* body carrying an errorCode, the swap ends with one failure notification,
\* never the success notification, and the client's sequence counter is the
\* one it had before the answer.
C6_ErrorCodeFailsSwap ==
    [][\A k \in 1..MaxSwaps :
          executeSwapResume(k, ErrorCodeAnswer) =>
              /\ ev'.thrown = "peer error"
              /\ ev'.notes = <<SwapFailed("peer error")>>
              /\ clients'[swaps[k].client].sequence = clients[swaps[k].client].sequence
              /\ clients' = clients]_vars

\* C6 witness: an errorCode answer ended a swap on a client that had already
\* counted a successful transaction.
C6_Witness ==
    /\ ev.op = "executeSwap.resume"
    /\ ev.ans = ErrorCodeAnswer
    /\ clients[ev.client].sequence > 0

\* C7: when the initialization query of a connectWallet fails, that
\* connectWallet leaves isConnected and the client reference as they were
\* (false and null when it started from Disconnected and no other connect
\* came through), emits exactly the one failure notification and sends
\* nothing more.
C7_FailedConnectLeavesDisconnected ==
    [][\A i \in ClientIds, ans \in Answers :
          (connects[i].pc = "init" /\ ans.kind \in FailKinds
             /\ connectWalletResume(i, ans)) =>
              /\ UNCHANGED <<convexClient, isConnected>>
              /\ (~isConnected => ~isConnected' /\ convexClient' = 0)
              /\ convexClient' # i
              /\ connects'[i] = NoConnect
              /\ clients'[i] = NewClient
              /\ ev'.notes = <<ConnectFailedNote>>
              /\ ev'.issued = <<>>]_vars

\* C7 witness: a connect started from Disconnected failed in its test query
\* and the controller is disconnected with a null client.
C7_Witness ==
    /\ ev.op = "connectWallet.resume"
    /\ ev.ans.kind = "timeout"
    /\ ev.thrown = "timeout"
    /\ ~isConnected
    /\ convexClient = 0

\* C8: ConvexClient.connect sends one initialization query, when it starts,
\* and none later; when the answer to it is not a 2xx answer with the value
\* 7, connect throws, sends no create-account or faucet request and hands
\* out no client; a client is handed out only after the value 7.
C8_ConnectNeedsInitAnswer ==
    [][/\ ev'.op = "connect" => ev'.issued = <<"query:init">>
       /\ ev'.op = "connect.resume" =>
             /\ \A n \in 1..Len(ev'.issued) : ev'.issued[n] # "query:init"
             /\ ev'.ret = "client" => clients'[ev'.client].isConnected
       /\ \A i \in ClientIds, ans \in Answers :
             (connects[i].pc = "init" /\ staticConnectResume(i, ans)) =>
                 IF ans.kind = "ok" /\ ans.value = 7
                 THEN ev'.thrown = "none"
                 ELSE /\ ev'.thrown # "none"
                      /\ ev'.ret # "client"
                      /\ ev'.issued = <<>>
                      /\ connects'[i] = NoConnect
                      /\ clients'[i] = NewClient]_vars

\* C8 witness: the peer answered the test query with another value and
\* connect threw, leaving no client.
C8_Witness ==
    /\ ev.op = "connect.resume"
    /\ ev.ans = [kind |-> "ok", value |-> 0]
    /\ ev.thrown = "Peer connection test failed"
    /\ Direct = {}

\* C9: transact (also through buyTokens and sellTokens) on a client that is
\* not connected or has no address throws before any request is sent: the
\* not-connected error when isConnected is false (never initialized, or
\* closed), the no-address error when only the address is missing; nothing
\* of the client changes.
C9_TransactNeedsSession ==
    [][\A i \in ClientIds, method \in {"transact", "buyTokens", "sellTokens"} :
          (/\ ~clients[i].isConnected \/ clients[i].address \in {Null, Undefined}
           /\ invoke(i, method)) =>
              /\ ev'.thrown = IF ~clients[i].isConnected
                              THEN "Not connected to Convex network"
                              ELSE "No address set for transaction"
              /\ ev'.issued = <<>>
              /\ clients'[i].sequence = clients[i].sequence
              /\ UNCHANGED <<clients, calls>>]_vars

\* C9 witness: transact refused on a client that is initialized but has no
\* address.
C9_Witness ==
    /\ ev.op = "transact"
    /\ ev.thrown = "No address set for transaction"
    /\ clients[ev.client].isConnected

\* C10: whatever failure answers the query of a lookup (transport error,
\* timeout, non-2xx, unreadable body, errorCode), getBalance returns 0,
\* getMarket returns null and the controller's getTokenBalance returns 0;
\* none throws or notifies, and the connection state, the clients and the
\* in-flight flag stay as they were.
C10_LookupsAbsorbFailures ==
    [][\A ans \in Answers : ans.kind \in FailKinds =>
          /\ \A pc \in {"from", "to"} :
                updateBalancesResume(pc, ans) =>
                    /\ ev'.ret = "value" /\ ev'.value = 0
                    /\ ev'.thrown = "none" /\ ev'.notes = <<>>
                    /\ UNCHANGED <<convexClient, isConnected, isSwapping, clients>>
          /\ \A k \in 1..MaxCalls :
                (calls[k].op = "getBalance" /\ invokeResume(k, ans)) =>
                    /\ ev'.ret = "value" /\ ev'.value = 0
                    /\ ev'.thrown = "none" /\ ev'.notes = <<>>
                    /\ UNCHANGED <<convexClient, isConnected, isSwapping, clients>>
          /\ \A k \in 1..MaxCalls :
                (calls[k].op = "getMarket" /\ invokeResume(k, ans)) =>
                    /\ ev'.ret = "null"
                    /\ ev'.thrown = "none" /\ ev'.notes = <<>>
                    /\ UNCHANGED <<convexClient, isConnected, isSwapping, clients>>]_vars

\* C10 witness: the controller is connected and a balance query of its
\* refresh was answered with an errorCode; the balance is 0.
C10_Witness ==
    /\ ev.op = "getTokenBalance"
    /\ ev.ans.kind = "errorCode"
    /\ ev.value = 0
    /\ isConnected

\* C11: every balance query the controller sends for a symbol is the native
\* query (balance <account>) when the registry holds no address for the
\* symbol or the symbol is CVX or CVM, whatever the registry holds for these;
\* it is the contract call exactly for a non-native symbol with a registered
\* address.  The symbol is the from token of the handler that calls
\* updateBalances, and the to token when updateBalances goes on to its second
\* getTokenBalance.
C11_NativeQueryUnlessRegistered ==
    [][LET tokenSymbol == IF ev'.op = "getTokenBalance" THEN toToken' ELSE fromToken'
       IN  \A n \in 1..Len(ev'.issued) :
              ev'.issued[n] \in {"query:balance", "query:call"} =>
                  (ev'.issued[n] = "query:call" <=>
                      /\ tokenSymbol \notin {"CVX", "CVM"}
                      /\ registry'[tokenSymbol] # Null)]_vars

\* C11 witness: the native query was sent for CVM although the registry
\* holds an address for CVM.
C11_Witness ==
    /\ ev.op = "showTokenSelector"
    /\ fromToken = "CVM"
    /\ registry["CVM"] = TokenAddress
    /\ ev.issued = <<"query:balance">>

\* C12 as claimed: onFromAmountChange with a positive numeric input sets
\* toAmount to input * 0.97 and the receive field to that number with
\* exactly 4 decimal places, in every state of the controller.
C12_EstimateInEveryState ==
    [][(/\ ev'.op = "onFromAmountChange"
        /\ ~ToNumber(ev'.arg).nan
        /\ ToNumber(ev'.arg).v > 0) =>
          /\ toAmount'.v = (ToNumber(ev'.arg).v \div 100) * 97
          /\ Len(toInput') >= 6
          /\ toInput'[Len(toInput') - 4] = "."]_vars

\* C12 amended: while the controller is connected, onFromAmountChange with a
\* positive numeric input (of at most 4 decimals) sets fromAmount to the
\* input, toAmount to input * 0.97 and the receive field to that number with
\* exactly 4 decimal places; "100" yields 97.0000.  While it is
\* disconnected the call clears the receive field and leaves both amounts.
C12_EstimateWhileConnected ==
    [][(/\ ev'.op = "onFromAmountChange"
        /\ ~ToNumber(ev'.arg).nan
        /\ ToNumber(ev'.arg).v > 0) =>
          IF isConnected
          THEN /\ fromAmount' = ToNumber(ev'.arg)
               /\ ~toAmount'.nan
               /\ ToNumber(ev'.arg).v % 100 = 0
               /\ toAmount'.v = (ToNumber(ev'.arg).v \div 100) * 97
               /\ Len(toInput') >= 6
               /\ toInput'[Len(toInput') - 4] = "."
               /\ \A n \in 1..Len(toInput') :
                     n # Len(toInput') - 4 => toInput'[n] \in DigitChars
               /\ ToNumber(toInput') = toAmount'
               /\ ev'.arg = <<"1", "0", "0">> =>
                     toInput' = <<"9", "7", ".", "0", "0", "0", "0">>
          ELSE /\ toInput' = <<>>
               /\ UNCHANGED <<fromAmount, toAmount>>]_vars

\* C12 witness: connected, the input 100 gave 97.0000.
C12_Witness ==
    /\ ev.op = "onFromAmountChange"
    /\ ev.arg = <<"1", "0", "0">>
    /\ isConnected
    /\ toInput = <<"9", "7", ".", "0", "0", "0", "0">>
    /\ toAmount = Num(97 * One)

\* C13: onFromAmountChange with an empty, non-numeric, zero or negative text,
\* from the input event or from a caller, clears the receive field, leaves
\* fromAmount and toAmount as they were, and sends no request.
C13_InvalidInputClears ==
    [][(/\ ev'.op = "onFromAmountChange"
        /\ ToNumber(ev'.arg).nan \/ ToNumber(ev'.arg).v <= 0) =>
          /\ toInput' = <<>>
          /\ UNCHANGED <<fromAmount, toAmount, refreshes, swaps, connects, clients>>
          /\ ev'.issued = <<>>]_vars

\* C13 witness: connected, after an estimate for 100 a text that only starts
\* with a number cleared the receive field and the amounts stayed.
C13_Witness ==
    /\ ev.op = "onFromAmountChange"
    /\ ev.arg = <<"1", "2", "a">>
    /\ isConnected
    /\ toInput = <<>>
    /\ fromAmount = Num(100 * One)
    /\ toAmount = Num(97 * One)

\* C14: one swapTokenPositions exchanges fromToken and toToken, zeroes both
\* amounts and leaves isConnected, isSwapping, the client reference and the
\* clients as they were; a second one right after it gives back the pair the
\* first one found, with both amounts zero.  From every controller state,
\* also while a swap or a refresh is in flight.
C14_SwapPositionsInvolution ==
    [][ev'.op = "swapTokenPositions" =>
          /\ fromToken' = toToken
          /\ toToken' = fromToken
          /\ fromAmount' = Num(0)
          /\ toAmount' = Num(0)
          /\ UNCHANGED <<isConnected, isSwapping, convexClient, clients>>
          /\ ev.op = "swapTokenPositions" =>
                /\ <<fromToken', toToken'>> = ev.arg
                /\ ev'.value = 2]_vars

\* C14 witness: two swapTokenPositions in a row, during a swap in flight,
\* gave back the pair (CVX, PAI).
C14_Witness ==
    /\ ev.op = "swapTokenPositions"
    /\ ev.value = 2
    /\ ev.arg = <<"PAI", "CVX">>
    /\ fromToken = "CVX"
    /\ toToken = "PAI"
    /\ fromAmount = Num(0)
    /\ toAmount = Num(0)
    /\ isSwapping

\* C15: toggleConnection while the controller is connected ends in this one
\* step with the client closed (isConnected false, address and key pair
\* null, sequence 0), the client reference null and isConnected false; it
\* sends no request and resumes or cancels nothing that is in flight.
C15_DisconnectClosesClient ==
    [][(isConnected /\ ev'.op = "toggleConnection") =>
          /\ convexClient # 0
          /\ ev'.thrown = "none"
          /\ clients'[convexClient] =
                [isConnected |-> FALSE, address |-> Null, keyPair |-> Null,
                 sequence |-> 0]
          /\ \A i \in ClientIds \ {convexClient} : clients'[i] = clients[i]
          /\ convexClient' = 0
          /\ ~isConnected'
          /\ ev'.issued = <<>>
          /\ UNCHANGED <<connects, swaps, refreshes, isSwapping>>]_vars

\* C15 witness: a disconnect while a swap of that client is in flight; the
\* client is closed and the reference null.
C15_Witness ==
    /\ ev.op = "toggleConnection"
    /\ ev.client # 0
    /\ ~isConnected
    /\ convexClient = 0
    /\ clients[ev.client].address = Null
    /\ \E k \in ActiveSwaps : swaps[k].client = ev.client

\* C16 as claimed: executeSwap with an empty, zero or negative amount in the
\* "You pay" field fails with the invalid-amount error in every state.
C16_InvalidAmountInEveryState ==
    [][(/\ ev'.op = "executeSwap"
        /\ ToNumber(fromInput).nan \/ ToNumber(fromInput).v <= 0) =>
          /\ ev'.thrown = "Please enter a valid amount"
          /\ ev'.notes = <<SwapFailed("Please enter a valid amount")>>]_vars

\* C16 amended: with the controller connected and no swap in flight,
\* executeSwap with an empty, zero or negative amount in the "You pay" field
\* fails with the invalid-amount error for every token pair: it sends no
\* request, emits the one failure notification, leaves every client (and so
\* the sequence counter) as it was and ends with isSwapping false.
C16_InvalidAmountFails ==
    [][(/\ ev'.op = "executeSwap"
        /\ isConnected
        /\ ~isSwapping
        /\ ToNumber(fromInput).nan \/ ToNumber(fromInput).v <= 0) =>
          /\ ev'.thrown = "Please enter a valid amount"
          /\ ev'.notes = <<SwapFailed("Please enter a valid amount")>>
          /\ ev'.issued = <<>>
          /\ ~isSwapping'
          /\ UNCHANGED <<clients, swaps, refreshes, connects>>]_vars

\* C16 witness: the invalid-amount failure for -5 on a pair that is not
\* supported either.
C16_Witness ==
    /\ ev.op = "executeSwap"
    /\ ev.thrown = "Please enter a valid amount"
    /\ fromInput = <<"-", "5">>
    /\ fromToken = "PAI"
    /\ toToken = "USDC"
    /\ ~isSwapping

\* C17 as claimed: every request of the client that is in flight can end by
\* the timeout: the requests of a connect (test query, create-account,
\* faucet) and those of query and transact.
C17_EveryRequestTimesOut ==
    /\ \A i \in ClientIds :
          (connects[i].caller = "direct"
             /\ connects[i].pc \in {"init", "create", "faucet"}) =>
                ENABLED staticConnectResume(i, TimeoutAnswer)
    /\ \A k \in 1..MaxCalls :
          calls[k].op \in {"query", "transact", "buyTokens", "sellTokens"} =>
                ENABLED invokeResume(k, TimeoutAnswer)

\* C18 as claimed: an executeSwap that passes validation (connected, no swap
\* in flight, positive amount, supported pair) sends exactly one transact:
\* buy for a native from token, sell for a native to token; when the answer
\* comes it sends no further transact.
C18_OneTransactPerSwap ==
    [][/\ (/\ ev'.op = "executeSwap"
           /\ isConnected
           /\ ~isSwapping
           /\ ~ToNumber(fromInput).nan
           /\ ToNumber(fromInput).v > 0
           /\ (fromToken \in {"CVX", "CVM"}) # (toToken \in {"CVX", "CVM"})) =>
              ev'.issued = <<IF fromToken \in {"CVX", "CVM"}
                             THEN "transact:buy" ELSE "transact:sell">>
       /\ ev'.op = "executeSwap.resume" =>
              \A n \in 1..Len(ev'.issued) :
                 ev'.issued[n] \notin {"transact:buy", "transact:sell"}]_vars

\* C19: the sequence counter of a client is 0 after every step that sets or
\* clears its address (setAddress, close, createDemoAccount, connect), one
\* more after a transact, buyTokens or sellTokens that succeeded, and what it
\* was after every other step: failed transacts, queries, balance and market
\* lookups, the faucet request; the client connect returns has counter 0.
C19_SequenceCountsTransacts ==
    [][\A i \in ClientIds :
          IF ev'.client # i THEN clients'[i].sequence = clients[i].sequence
          ELSE IF ev'.op \in {"setAddress", "close", "connect.resume",
                              "createDemoAccount.resume"}
          THEN clients'[i].sequence = 0
          ELSE IF /\ ev'.op \in {"transact.resume", "buyTokens.resume",
                                 "sellTokens.resume"}
                  /\ ev'.ans.kind = "ok"
          THEN clients'[i].sequence = clients[i].sequence + 1
          ELSE clients'[i].sequence = clients[i].sequence]_vars

\* C19 witness: the second transact in a row succeeded and the counter is 2.
C19_Witness ==
    /\ ev.op = "transact.resume"
    /\ ev.ans.kind = "ok"
    /\ clients[ev.client].sequence = 2

\* C20 as claimed: the client that connect returns when no address and key
\* pair were given holds the created account's address and key, or the demo
\* pair; never a missing address or key pair.
C20_BootstrapGivesAccount ==
    \A i \in ClientIds :
       (/\ ev.op = "connect.resume"
        /\ ev.client = i
        /\ ev.ret = "client"
        /\ ~connects[i].given) =>
           \/ clients[i].address = PeerAddress /\ clients[i].keyPair = AccountKey
           \/ clients[i].address = DemoAddress /\ clients[i].keyPair = DemoKeyPair

\* C21 as claimed: a client of the controller that close() has torn down
\* (isConnected false, address and key pair null, sequence 0) stays so in
\* every later state, whatever completes afterwards.
C21_ClosedStaysTornDown ==
    [][\A i \in ClientIds :
          (/\ connects[i].caller = "wallet"
           /\ connects[i].pc = "done"
           /\ clients[i] = close(clients[i])) =>
              clients'[i] = clients[i]]_vars

\* C22: in every reachable state the controller's isConnected is true exactly
\* when its client reference is not null, and the client it refers to is one
\* that connect returned, with isConnected true (close lowers it, so it has
\* not been closed).
C22_ConnectedIffClient ==
    /\ isConnected <=> convexClient # 0
    /\ convexClient # 0 =>
          /\ connects[convexClient].pc = "done"
          /\ clients[convexClient].isConnected

\* C22 witness: connected again, with a second client, after a disconnect
\* that closed the first.
C22_Witness ==
    /\ isConnected
    /\ convexClient = 2
    /\ connects[1].pc = "done"
    /\ ~clients[1].isConnected

\* C23: a step that leaves the controller disconnected sends no balance
\* query and no transact: the timer, swapTokenPositions, the token selector,
\* executeSwap, a refresh that goes on after the disconnect and a swap that
\* ends after it.
C23_QuietWhileDisconnected ==
    [][~isConnected' =>
          \A n \in 1..Len(ev'.issued) :
             ev'.issued[n] \notin {"query:balance", "query:call",
                                   "transact:buy", "transact:sell"}]_vars

\* C23 witness: a swap was answered with success after the disconnect; its
\* updateBalances was called and sent nothing.
C23_Witness ==
    /\ ev.op = "executeSwap.resume"
    /\ ev.thrown = "none"
    /\ ev.refresh
    /\ ev.issued = <<>>
    /\ ~isConnected

\* C24 as claimed: every client that connectWallet took from connect and
\* that the controller does not refer to has been closed, so at most one of
\* them is unclosed.
C24_DroppedClientsClosed ==
    \A i \in ClientIds :
       (/\ connects[i].caller = "wallet"
        /\ connects[i].pc = "done"
        /\ i # convexClient) => ~clients[i].isConnected

====
